---------------------------- MODULE Spec2Model ----------------------------
(***************************************************************************)
(* A model of gleaner (src/main.go): the Bubble Tea state machine          *)
(* model.Update, the note repository functions loadNotes, saveNote,        *)
(* deleteNote and sanitizeFileName, and the runtime that runs dispatched   *)
(* commands in goroutines and feeds their results back to Update.          *)
(*                                                                         *)
(* Strings that the code inspects character by character (titles and file  *)
(* names) are sequences of characters; a character is a one-element token. *)
(* Two tokens stand for non-ASCII runes: "U+00E9" (a letter outside ASCII) *)
(* and "U+00BD" (the vulgar fraction one half: unicode.IsNumber holds, it  *)
(* is no decimal digit).  File contents are opaque strings.                *)
(*                                                                         *)
(* A path is modelled by its file name: every path the program builds is   *)
(* filepath.Join(notesDir, name) with a name holding no separator, so      *)
(* filepath.Base of the path is the name again.                            *)
(*                                                                         *)
(* The widgets of the toolkit are modelled by what Update reads of them:   *)
(* the value and the focus of the text input and of the text area, the     *)
(* items and the cursor of the list (its filter is left unused).  Titles   *)
(* are shorter than the text input's CharLimit.  A typed key sets a        *)
(* widget's value to any of a few values.  tea.WindowSizeMsg changes sizes *)
(* only and has no action.  tea.Quit ends the run; a behaviour may stop in *)
(* any state, so the quit key has no action either.                        *)
(*                                                                         *)
(* File system calls fail in two ways only: os.Remove and os.ReadFile on a *)
(* missing file, and os.WriteFile when the file system refuses the write   *)
(* (the directory is then left as it was).                                 *)
(***************************************************************************)
EXTENDS Integers, Sequences, FiniteSets, Bags, TLC

VARIABLES
    mode,          \* model.mode: "list", "new" or "edit"
    selectedNote,  \* model.selectedNote: NULL or a note
    notes,         \* model.notes, also the items of model.list
    listIndex,     \* cursor of model.list (list.Index())
    tiValue,       \* model.textInput.Value()
    tiFocused,     \* model.textInput.Focused()
    taValue,       \* model.textarea.Value()
    taFocused,     \* model.textarea.Focused()
    titleEntered,  \* model.titleEntered
    ops,           \* history: save and delete commands dispatched so far
    disk,          \* the notes directory: file name -> content
    tasks,         \* bag of commands in flight (goroutines of the runtime)
    now,           \* time.Now().Unix()
    lastKey,       \* history: what the last key press was or dispatched
    probe          \* input and output of the last repository function probed

vars == <<mode, selectedNote, notes, listIndex, tiValue, tiFocused, taValue,
          taFocused, titleEntered, disk, tasks, now, ops, lastKey, probe>>

NULL == [nil |-> TRUE]

(***************************************************************************)
(* Bounds of the model.                                                    *)
(***************************************************************************)
\* commands in flight at once
MaxTasks == 2
\* save and delete commands dispatched in one run
MaxOps == 1
\* length of the strings fed to the repository functions when probed alone
MaxProbeLen == 4

(***************************************************************************)
(* Characters and the Go string functions the code uses.                   *)
(***************************************************************************)
Digits == <<"0", "1", "2", "3", "4", "5", "6", "7", "8", "9">>

DigitSet == {Digits[i] : i \in 1..10}

\* unicode.IsLetter
IsLetter(r) ==
    r \in {"G", "a", "b", "c", "d", "e", "i", "m", "o", "r", "s", "U+00E9"}

\* unicode.IsNumber: category N, the decimal digits and more
IsNumber(r) == r \in DigitSet \cup {"U+00BD"}

\* the characters of the model in byte order (os.ReadDir sorts by name)
ByteOrder == <<" ", "!", "+", "-", ".", "0", "1", "2", "3", "4", "5", "6", "7",
               "8", "9", "G", "_", "a", "b", "c", "d", "e", "i", "m", "o", "r", "s",
               "U+00BD", "U+00E9">>

Ord(r) == CHOOSE i \in 1..Len(ByteOrder) : ByteOrder[i] = r

MdSuffix == <<".", "m", "d">>

\* strings.HasSuffix
HasSuffix(s, suffix) ==
    /\ Len(s) >= Len(suffix)
    /\ SubSeq(s, Len(s) - Len(suffix) + 1, Len(s)) = suffix

\* strings.TrimSuffix
TrimSuffix(s, suffix) ==
    IF HasSuffix(s, suffix) THEN SubSeq(s, 1, Len(s) - Len(suffix)) ELSE s

\* strings.ReplaceAll(s, old, new) for one-character old and new
ReplaceAll(s, old, new) == [i \in 1..Len(s) |-> IF s[i] = old THEN new ELSE s[i]]

\* filepath.Ext: the suffix beginning at the final dot, empty if there is none
Ext(name) ==
    LET dots == {i \in 1..Len(name) : name[i] = "."}
    IN  IF dots = {} THEN <<>>
        ELSE SubSeq(name, CHOOSE i \in dots : \A j \in dots : j <= i, Len(name))

\* strings.SplitN(s, sep, 2) for a one-character sep
SplitN2(s, sep) ==
    LET at == {i \in 1..Len(s) : s[i] = sep}
    IN  IF at = {} THEN <<s>>
        ELSE LET i == CHOOSE k \in at : \A j \in at : k <= j
             IN  <<SubSeq(s, 1, i - 1), SubSeq(s, i + 1, Len(s))>>

RECURSIVE DigitsValue(_)
DigitsValue(s) ==
    IF s = <<>> THEN 0
    ELSE 10 * DigitsValue(SubSeq(s, 1, Len(s) - 1)) + (Ord(s[Len(s)]) - Ord("0"))

\* strconv.ParseInt(s, 10, 64): an optional sign, then one or more ASCII digits
\* (the strings of the model are too short to leave the 64-bit range)
ParseInt(s) ==
    LET signed == s # <<>> /\ s[1] \in {"+", "-"}
        body   == IF signed THEN Tail(s) ELSE s
    IN  IF body = <<>> \/ \E i \in 1..Len(body) : body[i] \notin DigitSet
        THEN [err |-> TRUE, val |-> 0]
        ELSE [err |-> FALSE,
              val |-> IF signed /\ s[1] = "-" THEN 0 - DigitsValue(body)
                      ELSE DigitsValue(body)]

RECURSIVE FormatNat(_)
FormatNat(n) ==
    IF n < 10 THEN <<Digits[n + 1]>>
    ELSE FormatNat(n \div 10) \o <<Digits[(n % 10) + 1]>>

\* fmt.Sprintf("%d", n)
FormatInt(n) == IF n < 0 THEN <<"-">> \o FormatNat(0 - n) ELSE FormatNat(n)

(***************************************************************************)
(* The note repository.                                                    *)
(***************************************************************************)
\* SanitizeRune replacing with an underscore instead of a hyphen
SanitizeRune_Underscore(r) ==
    IF IsLetter(r) \/ IsNumber(r) \/ r = "-" \/ r = "_" THEN r ELSE "_"

\* the mapping function sanitizeFileName hands to strings.Map
SanitizeRune(r) == IF IsLetter(r) \/ IsNumber(r) \/ r = "-" \/ r = "_" THEN r ELSE "-"

\* sanitizeFileName without its strings.TrimSuffix
sanitizeFileName_NoTrim(input) == [i \in 1..Len(input) |-> SanitizeRune(input[i])]

\* strings.Map over the input without a trailing ".md"
sanitizeFileName(input) ==
    LET name == TrimSuffix(input, MdSuffix)
    IN  [i \in 1..Len(name) |-> SanitizeRune(name[i])]


\* NoteOf with the hyphens of the title left as they are
NoteOf_TitleNotRestored(name) ==
    LET nameParts == SplitN2(name, "-")
    IN  [title     |-> TrimSuffix(nameParts[2], MdSuffix),
         path      |-> name,
         createdAt |-> ParseInt(nameParts[1]).val]

\* the note loadNotes builds from a file name that passed its checks
NoteOf(name) ==
    LET nameParts == SplitN2(name, "-")
    IN  [title     |-> ReplaceAll(TrimSuffix(nameParts[2], MdSuffix), "-", " "),
         path      |-> name,
         createdAt |-> ParseInt(nameParts[1]).val]

\* the checks of loadNotes with the strconv.ParseInt error not looked at
IsNoteFile_NoTimestampCheck(name) ==
    /\ Ext(name) = MdSuffix
    /\ Len(SplitN2(name, "-")) >= 2

\* the checks of loadNotes: the extension, the delimiter, the timestamp
IsNoteFile(name) ==
    /\ Ext(name) = MdSuffix
    /\ Len(SplitN2(name, "-")) >= 2
    /\ ~ParseInt(SplitN2(name, "-")[1]).err

\* byte-wise order of file names
RECURSIVE NameLess(_, _)
NameLess(s, t) ==
    IF t = <<>> THEN FALSE
    ELSE IF s = <<>> THEN TRUE
    ELSE IF s[1] # t[1] THEN Ord(s[1]) < Ord(t[1])
    ELSE NameLess(Tail(s), Tail(t))

\* os.ReadDir: the entries of the directory, sorted by file name
RECURSIVE SortedNames(_)
SortedNames(S) ==
    IF S = {} THEN <<>>
    ELSE LET first == CHOOSE n \in S : \A o \in S \ {n} : NameLess(n, o)
         IN  <<first>> \o SortedNames(S \ {first})

ReadDir(d) == SortedNames(DOMAIN d)

RECURSIVE NotesOfFiles(_)
NotesOfFiles(files) ==
    IF files = <<>> THEN <<>>
    ELSE (IF IsNoteFile(Head(files)) THEN <<NoteOf(Head(files))>> ELSE <<>>)
         \o NotesOfFiles(Tail(files))

\* loadNotes on directory d
loadNotes(d) == NotesOfFiles(ReadDir(d))

\* SavePath with the clock read for an existing note too
SavePath_FreshTimestamp(title, existingNote, t) ==
    FormatInt(t) \o <<"-">> \o sanitizeFileName(title) \o MdSuffix

\* the file saveNote writes: the existing note's timestamp text, or the clock
SavePath(title, existingNote, t) ==
    IF existingNote # NULL
    THEN SplitN2(existingNote.path, "-")[1] \o <<"-">> \o sanitizeFileName(title) \o MdSuffix
    ELSE FormatInt(t) \o <<"-">> \o sanitizeFileName(title) \o MdSuffix

\* os.Remove (a missing file is an error the code ignores)
Remove(d, path) == [n \in DOMAIN d \ {path} |-> d[n]]

\* os.WriteFile, when it succeeds
WriteFile(d, path, content) ==
    [n \in DOMAIN d \cup {path} |-> IF n = path THEN content ELSE d[n]]

\* os.ReadFile
ReadFile(d, path) ==
    IF path \in DOMAIN d THEN [err |-> FALSE, content |-> d[path]]
    ELSE [err |-> TRUE, content |-> ""]


(***************************************************************************)
(* Commands in flight.  tea.Batch runs each command in its own goroutine,  *)
(* so the system calls of different commands interleave, and the results   *)
(* reach Update in any order.  A command is a record: pc is the call it    *)
(* makes next, err what os.WriteFile returned, msg what loadNotes          *)
(* returned; before and from are history: the directory as saveNote found  *)
(* it, and the mode in which the save key was pressed.                     *)
(***************************************************************************)
\* the command loadNotes
LoadTask ==
    [kind |-> "load", pc |-> "read", title |-> <<>>, content |-> "",
     existingNote |-> NULL, path |-> <<>>, err |-> FALSE, msg |-> <<>>,
     before |-> <<>>, from |-> ""]

\* the command saveNote(title, content, existingNote) returns, dispatched in
\* mode `from`
SaveTask(title, content, existingNote, from) ==
    [kind |-> "save", pc |-> "start", title |-> title, content |-> content,
     existingNote |-> existingNote, path |-> <<>>, err |-> FALSE, msg |-> <<>>,
     before |-> <<>>, from |-> from]

\* the command deleteNote(path) returns
DeleteTask(path) ==
    [kind |-> "delete", pc |-> "remove", title |-> <<>>, content |-> "",
     existingNote |-> NULL, path |-> path, err |-> FALSE, msg |-> <<>>,
     before |-> <<>>, from |-> ""]

InFlight == BagCardinality(tasks)

Dispatch(new) == tasks' = tasks (+) new

Step(t, u) == tasks' = (tasks (-) SetToBag({t})) (+) SetToBag({u})

(***************************************************************************)
(* Inputs of the model.                                                    *)
(***************************************************************************)
\* what the user types into the title field
Titles == {<<"b", "!">>}

\* what the user types into the content field
Contents == {"y"}

\* the clock stops here
MaxTime == 10

\* the clock when the program starts
StartTime == MaxTime - 1

\* the notes directory when the program starts
SeedDir ==
    (<<"8", "-", "a", ".", "m", "d">> :> "x") @@
    (<<"8", "-", "b", "-", ".", "m", "d">> :> "y") @@
    (<<"m", ".", "m", "d">> :> "x") @@
    (<<"a", "-", "b", ".", "m", "d">> :> "y")

\* a notes directory holding a single note
LoneDir == (<<"8", "-", "a", ".", "m", "d">> :> "x")

\* the directories the program may find when it starts
InitDirs == {SeedDir, LoneDir}

NoKey == [kind |-> "none", path |-> <<>>]

OtherKey == [kind |-> "other", path |-> <<>>]

NoProbe == [op |-> "none"]

\* initialModel, with the batch of model.Init dispatched
InitModel ==
    /\ mode = "list"
    /\ selectedNote = NULL
    /\ notes = <<>>
    /\ listIndex = 0
    /\ tiValue = <<>>
    /\ tiFocused = TRUE
    /\ taValue = ""
    /\ taFocused = FALSE
    /\ titleEntered = FALSE
    /\ ops = 0
    /\ tasks = SetToBag({LoadTask})
    /\ now = StartTime
    /\ lastKey = NoKey
    /\ probe = NoProbe

Init ==
    /\ InitModel
    /\ disk \in InitDirs

ui == <<mode, selectedNote, notes, listIndex, tiValue, tiFocused, taValue,
        taFocused, titleEntered>>


(***************************************************************************)
(* The steps of the commands.                                              *)
(***************************************************************************)
\* loadNotes, alone or as the last call of saveNote and deleteNote
TaskRead(t) ==
    /\ BagIn(t, tasks)
    /\ t.pc = "read"
    /\ Step(t, [t EXCEPT !.pc = "send", !.msg = loadNotes(disk)])
    /\ UNCHANGED <<ui, disk, now, lastKey, ops, probe>>

\* saveNote leaving the existing note's file in place
SaveStart_KeepsOldFile(t) ==
    /\ BagIn(t, tasks)
    /\ t.pc = "start"
    /\ Step(t, [t EXCEPT !.pc = "write",
                         !.path = SavePath(t.title, t.existingNote, now),
                         !.before = disk])
    /\ UNCHANGED <<ui, disk, now, lastKey, ops, probe>>

\* saveNote up to os.Remove: the path is built, the existing note's file removed
SaveStart(t) ==
    /\ BagIn(t, tasks)
    /\ t.pc = "start"
    /\ Step(t, [t EXCEPT !.pc = "write",
                         !.path = SavePath(t.title, t.existingNote, now),
                         !.before = disk])
    /\ disk' = IF t.existingNote # NULL THEN Remove(disk, t.existingNote.path) ELSE disk
    /\ UNCHANGED <<ui, now, lastKey, ops, probe>>

\* os.WriteFile of saveNote: the file system may refuse the write
SaveWrite(t) ==
    /\ BagIn(t, tasks)
    /\ t.pc = "write"
    /\ \E failed \in BOOLEAN :
          /\ Step(t, [t EXCEPT !.pc = "read", !.err = failed])
          /\ disk' = IF failed THEN disk ELSE WriteFile(disk, t.path, t.content)
    /\ UNCHANGED <<ui, now, lastKey, ops, probe>>

\* os.Remove of deleteNote
DeleteRemove(t) ==
    /\ BagIn(t, tasks)
    /\ t.pc = "remove"
    /\ Step(t, [t EXCEPT !.pc = "read"])
    /\ disk' = Remove(disk, t.path)
    /\ UNCHANGED <<ui, now, lastKey, ops, probe>>

\* the clock advances
Tick ==
    /\ now < MaxTime
    /\ now' = now + 1
    /\ UNCHANGED <<ui, disk, tasks, lastKey, ops, probe>>

(***************************************************************************)
(* model.Update.                                                           *)
(***************************************************************************)
Range(s) == {s[i] : i \in 1..Len(s)}

\* sort.Slice by createdAt, newest first: the sort is not stable, so every
\* order of the notes with equal createdAt is a possible result
RECURSIVE SortedOrders(_)
SortedOrders(S) ==
    IF S = {} THEN {<<>>}
    ELSE UNION {{<<n>> \o rest : rest \in SortedOrders(S \ {n})} :
                n \in {m \in S : \A o \in S : m.createdAt >= o.createdAt}}

\* the notes left in the order loadNotes returned them
SortNotes_Unsorted(msg) == {msg}

SortNotes(msg) == SortedOrders(Range(msg))

\* position (from 1) of the first note with this path, or 0
IndexOfPath(s, path) ==
    LET at == {i \in 1..Len(s) : s[i].path = path}
    IN  IF at = {} THEN 0 ELSE CHOOSE i \in at : \A j \in at : i <= j

\* string(content) of os.ReadFile with the error dropped
ContentOf(path) == ReadFile(disk, path).content

\* list.SelectedItem(): NULL when the cursor is past the items
SelectedItem(index) ==
    IF index >= 0 /\ index < Len(notes) THEN notes[index + 1] ELSE NULL

\* case []note with the first note selected whatever was selected before
UpdateNotes_SelectsFirst(sorted) ==
    /\ notes' = sorted
    /\ IF Len(sorted) > 0
       THEN /\ listIndex' = 0
            /\ selectedNote' = sorted[1]
            /\ taValue' = ContentOf(sorted[1].path)
       ELSE UNCHANGED <<listIndex, selectedNote, taValue>>
    /\ UNCHANGED <<mode, tiValue, tiFocused, taFocused, titleEntered>>

\* case []note, with the note list `sorted` one result of the sort
UpdateNotes(sorted) ==
    /\ notes' = sorted
    /\ IF Len(sorted) > 0
       THEN LET i == IF selectedNote = NULL THEN 0
                     ELSE IndexOfPath(sorted, selectedNote.path)
                k == IF i = 0 THEN 1 ELSE i
            IN  /\ listIndex' = k - 1
                /\ selectedNote' = sorted[k]
                /\ taValue' = ContentOf(sorted[k].path)
       ELSE UNCHANGED <<listIndex, selectedNote, taValue>>
    /\ UNCHANGED <<mode, tiValue, tiFocused, taFocused, titleEntered>>

\* the runtime hands a command's result to Update
Deliver(t) ==
    /\ BagIn(t, tasks)
    /\ t.pc = "send"
    /\ \E sorted \in SortNotes(t.msg) : UpdateNotes(sorted)
    /\ tasks' = tasks (-) SetToBag({t})
    /\ UNCHANGED <<disk, now, lastKey, ops, probe>>

\* ctrl+u reaching the title field as well, whose binding for it deletes the
\* text before the cursor
KeyCtrlU_ClearsTitle ==
    /\ InFlight + 1 <= MaxTasks
    /\ Dispatch(SetToBag({LoadTask}))
    /\ lastKey' = [kind |-> "refresh", path |-> <<>>]
    /\ tiValue' = IF mode \in {"new", "edit"} /\ tiFocused THEN <<>> ELSE tiValue
    /\ UNCHANGED <<mode, selectedNote, notes, listIndex, tiFocused, taValue,
                   taFocused, titleEntered, disk, now, ops, probe>>

\* case "ctrl+u"
KeyCtrlU ==
    /\ InFlight + 1 <= MaxTasks
    /\ Dispatch(SetToBag({LoadTask}))
    /\ lastKey' = [kind |-> "refresh", path |-> <<>>]
    /\ UNCHANGED <<ui, disk, now, ops, probe>>

\* case tea.KeyTab; a tab the case does not take goes to a widget that ignores it
KeyTab ==
    /\ IF mode \in {"new", "edit"} /\ tiFocused
       THEN /\ titleEntered' = TRUE
            /\ tiFocused' = FALSE
            /\ taFocused' = TRUE
       ELSE UNCHANGED <<titleEntered, tiFocused, taFocused>>
    /\ lastKey' = OtherKey
    /\ UNCHANGED <<mode, selectedNote, notes, listIndex, tiValue, taValue,
                   disk, tasks, now, ops, probe>>

\* case tea.KeyCtrlN
KeyCtrlN ==
    /\ mode' = "new"
    /\ tiValue' = <<>>
    /\ taValue' = ""
    /\ titleEntered' = FALSE
    /\ tiFocused' = TRUE
    /\ selectedNote' = NULL
    /\ lastKey' = OtherKey
    /\ UNCHANGED <<notes, listIndex, taFocused, disk, tasks, now, ops, probe>>

\* case tea.KeyCtrlS without the test of the title
KeyCtrlS_NoTitleCheck ==
    /\ IF mode \in {"new", "edit"}
       THEN /\ InFlight + 2 <= MaxTasks
            /\ ops < MaxOps
            /\ ops' = ops + 1
            /\ Dispatch(SetToBag({SaveTask(tiValue, taValue, selectedNote, mode)})
                        (+) SetToBag({LoadTask}))
            /\ mode' = "list"
            /\ tiValue' = <<>>
            /\ taValue' = ""
            /\ titleEntered' = FALSE
            /\ selectedNote' = NULL
            /\ lastKey' = [kind |-> "save", path |-> <<>>]
       ELSE /\ lastKey' = [kind |-> "ctrl+s", path |-> <<>>]
            /\ UNCHANGED <<tasks, ops, mode, tiValue, taValue, titleEntered, selectedNote>>
    /\ UNCHANGED <<notes, listIndex, tiFocused, taFocused, disk, now, probe>>

\* case tea.KeyCtrlS; outside "new" and "edit", and with an empty title, the
\* key goes to a widget that ignores it
KeyCtrlS ==
    /\ IF mode \in {"new", "edit"} /\ tiValue # <<>>
       THEN /\ InFlight + 2 <= MaxTasks
            /\ ops < MaxOps
            /\ ops' = ops + 1
            /\ Dispatch(SetToBag({SaveTask(tiValue, taValue, selectedNote, mode)})
                        (+) SetToBag({LoadTask}))
            /\ mode' = "list"
            /\ tiValue' = <<>>
            /\ taValue' = ""
            /\ titleEntered' = FALSE
            /\ selectedNote' = NULL
            /\ lastKey' = [kind |-> "save", path |-> <<>>]
       ELSE /\ lastKey' = [kind |-> "ctrl+s", path |-> <<>>]
            /\ UNCHANGED <<tasks, ops, mode, tiValue, taValue, titleEntered, selectedNote>>
    /\ UNCHANGED <<notes, listIndex, tiFocused, taFocused, disk, now, probe>>

\* case tea.KeyCtrlD; with no note selected the key goes on to a widget
KeyCtrlD ==
    /\ IF selectedNote # NULL
       THEN /\ InFlight + 2 <= MaxTasks
            /\ ops < MaxOps
            /\ ops' = ops + 1
            /\ Dispatch(SetToBag({DeleteTask(selectedNote.path)})
                        (+) SetToBag({LoadTask}))
            /\ lastKey' = [kind |-> "delete", path |-> selectedNote.path]
       ELSE /\ lastKey' = OtherKey
            /\ UNCHANGED <<tasks, ops>>
    /\ UNCHANGED <<ui, disk, now, probe>>

\* case tea.KeyCtrlE; with no note selected the key goes on to a widget
KeyCtrlE ==
    /\ IF selectedNote # NULL
       THEN /\ mode' = "edit"
            /\ tiValue' = selectedNote.title
            /\ taValue' = ContentOf(selectedNote.path)
            /\ tiFocused' = TRUE
            /\ titleEntered' = TRUE
       ELSE UNCHANGED <<mode, tiValue, taValue, tiFocused, titleEntered>>
    /\ lastKey' = OtherKey
    /\ UNCHANGED <<selectedNote, notes, listIndex, taFocused, disk, tasks,
                   now, ops, probe>>

\* list.CursorUp (delta = -1) and list.CursorDown (delta = 1)
MoveCursor(index, delta) ==
    IF Len(notes) = 0 THEN index
    ELSE IF index + delta < 0 THEN 0
    ELSE IF index + delta > Len(notes) - 1 THEN Len(notes) - 1
    ELSE index + delta

\* case tea.KeyUp, tea.KeyDown; outside "list" the key goes to a text widget,
\* where it moves the cursor only
KeyUpDown(delta) ==
    /\ IF mode = "list"
       THEN LET index    == MoveCursor(listIndex, delta)
                selected == SelectedItem(index)
            IN  /\ listIndex' = index
                /\ IF selected # NULL
                   THEN /\ selectedNote' = selected
                        /\ taValue' = IF ReadFile(disk, selected.path).err THEN taValue
                                      ELSE ReadFile(disk, selected.path).content
                   ELSE UNCHANGED <<selectedNote, taValue>>
       ELSE UNCHANGED <<listIndex, selectedNote, taValue>>
    /\ lastKey' = OtherKey
    /\ UNCHANGED <<mode, notes, tiValue, tiFocused, taFocused, titleEntered,
                   disk, tasks, now, ops, probe>>

\* case tea.KeyEnter in "list" (in "new" and "edit" it is a typed key)
KeyEnter ==
    /\ mode = "list"
    /\ LET selected == SelectedItem(listIndex)
       IN  IF selected # NULL
           THEN /\ selectedNote' = selected
                /\ taValue' = ContentOf(selected.path)
           ELSE UNCHANGED <<selectedNote, taValue>>
    /\ lastKey' = OtherKey
    /\ UNCHANGED <<mode, notes, listIndex, tiValue, tiFocused, taFocused,
                   titleEntered, disk, tasks, now, ops, probe>>

\* case tea.KeyEsc
KeyEsc ==
    /\ mode' = "list"
    /\ tiValue' = <<>>
    /\ taValue' = ""
    /\ titleEntered' = FALSE
    /\ tiFocused' = FALSE
    /\ taFocused' = FALSE
    /\ selectedNote' = NULL
    /\ lastKey' = [kind |-> "esc", path |-> <<>>]
    /\ UNCHANGED <<notes, listIndex, disk, tasks, now, ops, probe>>

\* keys no case takes, in "new" or "edit" with the title field focused: the
\* text input edits its value
TypeTitle(title) ==
    /\ mode \in {"new", "edit"}
    /\ tiFocused
    /\ tiValue' = title
    /\ lastKey' = OtherKey
    /\ UNCHANGED <<mode, selectedNote, notes, listIndex, tiFocused, taValue,
                   taFocused, titleEntered, disk, tasks, now, ops, probe>>

\* the same keys when the title field is not focused: the text area edits its
\* value, if it is focused
TypeContent(content) ==
    /\ mode \in {"new", "edit"}
    /\ ~tiFocused
    /\ taFocused
    /\ taValue' = content
    /\ lastKey' = OtherKey
    /\ UNCHANGED <<mode, selectedNote, notes, listIndex, tiValue, tiFocused,
                   taFocused, titleEntered, disk, tasks, now, ops, probe>>

TaskStep ==
    \/ \E t \in BagToSet(tasks) : TaskRead(t)
    \/ \E t \in BagToSet(tasks) : SaveStart(t)
    \/ \E t \in BagToSet(tasks) : SaveWrite(t)
    \/ \E t \in BagToSet(tasks) : DeleteRemove(t)
    \/ \E t \in BagToSet(tasks) : Deliver(t)

Key ==
    \/ KeyCtrlU
    \/ KeyTab
    \/ KeyCtrlN
    \/ KeyCtrlS
    \/ KeyCtrlD
    \/ KeyCtrlE
    \/ \E delta \in {-1, 1} : KeyUpDown(delta)
    \/ KeyEnter
    \/ KeyEsc
    \/ \E title \in Titles \cup {<<>>} : TypeTitle(title)
    \/ \E content \in Contents : TypeContent(content)

Next == Key \/ TaskStep \/ Tick

Spec == Init /\ [][Next]_vars


(***************************************************************************)
(* The repository functions alone: sanitizeFileName on every short title,  *)
(* loadNotes on directories holding every short file name.                 *)
(***************************************************************************)
RECURSIVE StringsOver(_, _)
StringsOver(chars, n) ==
    IF n = 0 THEN {<<>>}
    ELSE LET shorter == StringsOver(chars, n - 1)
         IN  shorter \cup {<<c>> \o s : c \in chars, s \in {x \in shorter : Len(x) = n - 1}}

ProbeTitles ==
    StringsOver({"1", "-", "_", "!", ".", "m", "d", "U+00BD", "U+00E9"}, MaxProbeLen)

\* the titles saved when saveNote and loadNotes are probed together
ProbeSaveTitles ==
    StringsOver({"a", "-", " ", "!", ".", "m", "d"}, MaxProbeLen) \ {<<>>}

ProbeNames ==
    {stem \o ext : stem \in StringsOver({"1", "+", "-", ".", "m", "d"}, MaxProbeLen),
                   ext \in {<<>>, MdSuffix, <<".", "d", "m">>, <<"m", "d">>}}

\* a note file every probed directory holds beside the probed name
ProbeNeighbour == <<"8", "-", "a", ".", "m", "d">>

ProbeSanitize ==
    /\ probe = NoProbe
    /\ \E title \in ProbeTitles :
          probe' = [op |-> "sanitize", input |-> title, out |-> sanitizeFileName(title)]
    /\ UNCHANGED <<ui, disk, tasks, now, ops, lastKey>>

ProbeLoad ==
    /\ probe = NoProbe
    /\ \E name \in ProbeNames :
          LET dir == (name :> "x") @@ (ProbeNeighbour :> "y")
          IN  probe' = [op |-> "load", input |-> DOMAIN dir, out |-> loadNotes(dir)]
    /\ UNCHANGED <<ui, disk, tasks, now, ops, lastKey>>

\* saveNote with no existing note, its write succeeding, then its loadNotes
ProbeSave ==
    /\ probe = NoProbe
    /\ \E title \in ProbeSaveTitles, content \in {"", "y"}, t \in {8, MaxTime} :
          LET path == SavePath(title, NULL, t)
              dir  == WriteFile(SeedDir, path, content)
          IN  probe' = [op |-> "save", input |-> [title |-> title, content |-> content],
                        path |-> path, dir |-> dir, out |-> loadNotes(dir)]
    /\ UNCHANGED <<ui, disk, tasks, now, ops, lastKey>>

\* the title, the content and the clock of the save the README walks through
ScenarioTitle == <<"G", "r", "o", "c", "e", "r", "i", "e", "s", "!", "!">>

ScenarioContent == "milk, eggs"

ScenarioTime == 1700000000

\* saveNote of a new note at the scenario's clock, its write succeeding
ProbeScenario ==
    /\ probe = NoProbe
    /\ \E title \in {ScenarioTitle} \cup Titles, dir \in {SeedDir, <<>>} :
          LET path == SavePath(title, NULL, ScenarioTime)
          IN  probe' = [op |-> "scenario", input |-> [title |-> title, content |-> ScenarioContent],
                        before |-> dir, path |-> path,
                        dir |-> WriteFile(dir, path, ScenarioContent)]
    /\ UNCHANGED <<ui, disk, tasks, now, ops, lastKey>>

NextProbe == ProbeSanitize \/ ProbeLoad \/ ProbeSave \/ ProbeScenario

SpecProbe == Init /\ [][NextProbe]_vars


(***************************************************************************)
(* Properties.                                                             *)
(***************************************************************************)
Paths(s) == {s[i].path : i \in 1..Len(s)}

\* the text before the first "-" of a name that holds one
BeforeFirstDash(name) ==
    SubSeq(name, 1, (CHOOSE i \in 1..Len(name) :
                        name[i] = "-" /\ \A j \in 1..(i - 1) : name[j] # "-") - 1)

\* decimal integer text: an optional sign and at least one digit
IsIntegerText(s) ==
    \/ s # <<>> /\ \A i \in 1..Len(s) : s[i] \in DigitSet
    \/ Len(s) >= 2 /\ s[1] \in {"+", "-"} /\ \A i \in 2..Len(s) : s[i] \in DigitSet

\* what C9 asks of a listed name
NamedAsNote(name) ==
    /\ HasSuffix(name, MdSuffix)
    /\ "-" \in Range(name)
    /\ IsIntegerText(BeforeFirstDash(name))

\* C9: loadNotes returns a note for a directory entry if and only if the
\* entry's name ends in ".md", holds the delimiter "-", and the text before
\* the first "-" parses as an integer; no other file appears in the result,
\* and the result holds each listed file once.
C9_ListedIffNamedAsNote ==
    probe.op = "load" =>
        /\ \A name \in probe.input : name \in Paths(probe.out) <=> NamedAsNote(name)
        /\ Paths(probe.out) \subseteq probe.input
        /\ Len(probe.out) = Cardinality(Paths(probe.out))

\* C9 witness: a directory where a name ending in ".md" and holding "-" is
\* skipped for its prefix, while the other file is listed.
C9_Witness ==
    /\ probe.op = "load"
    /\ Len(probe.out) = 1
    /\ \E name \in probe.input :
          /\ HasSuffix(name, MdSuffix)
          /\ "-" \in Range(name)
          /\ name \notin Paths(probe.out)

\* the characters C10 says are kept
KeptAsClaimed(r) == IsLetter(r) \/ r \in DigitSet \/ r = "-" \/ r = "_"

\* C10 as stated: the result of sanitizeFileName has the length of the title,
\* keeps every letter, digit, hyphen and underscore in place and has a hyphen
\* in the place of every other character.
C10_SameLengthCharMap ==
    probe.op = "sanitize" =>
        /\ Len(probe.out) = Len(probe.input)
        /\ \A i \in 1..Len(probe.input) :
              probe.out[i] = IF KeptAsClaimed(probe.input[i]) THEN probe.input[i] ELSE "-"

\* the title with one trailing ".md" taken off
WithoutMd(title) ==
    IF Len(title) >= 3 /\ title[Len(title) - 2] = "." /\ title[Len(title) - 1] = "m"
       /\ title[Len(title)] = "d"
    THEN [i \in 1..(Len(title) - 3) |-> title[i]]
    ELSE title

\* C10 amended: sanitizeFileName first takes one trailing ".md" off the title;
\* the result has the length of what is left, keeps every letter, every
\* Unicode number character (the decimal digits and others, such as the
\* fraction one half), every hyphen and underscore of it in place, and has a
\* hyphen in the place of every other character.
C10_TrimmedCharMap ==
    probe.op = "sanitize" =>
        LET rest == WithoutMd(probe.input)
        IN  /\ Len(probe.out) = Len(rest)
            /\ \A i \in 1..Len(rest) :
                  probe.out[i] = IF IsLetter(rest[i]) \/ IsNumber(rest[i])
                                    \/ rest[i] \in {"-", "_"}
                                 THEN rest[i] ELSE "-"

\* C10 witness: a title ending in ".md" whose remaining text holds a character
\* that becomes a hyphen.
C10_Witness ==
    /\ probe.op = "sanitize"
    /\ HasSuffix(probe.input, MdSuffix)
    /\ Len(probe.out) = Len(probe.input) - 3
    /\ \E i \in 1..Len(probe.out) : probe.out[i] = "-" /\ probe.input[i] # "-"


\* C1 as stated: whenever the mode is "new" no note is selected, so a save
\* key pressed in "new" hands saveNote no existing note.
C1_NewModeHasNoSelection == mode = "new" => selectedNote = NULL

\* C2 as stated: when the last key pressed was a save or a delete and every
\* command in flight has delivered its result, the paths of the notes in
\* memory are the paths of the notes on disk.
C2_SettledNotesMatchDisk ==
    (lastKey.kind \in {"save", "delete"} /\ InFlight = 0)
        => Paths(notes) = Paths(loadNotes(disk))

\* C3: saving a new note (no existing note, any non-empty title, any content)
\* and then listing yields exactly one note for the file written; the file
\* holds the content given, and the note's title is the title given,
\* sanitized, with every hyphen turned into a space.
C3_CreateThenList ==
    probe.op = "save" =>
        /\ Cardinality({i \in 1..Len(probe.out) : probe.out[i].path = probe.path}) = 1
        /\ probe.dir[probe.path] = probe.input.content
        /\ \A i \in 1..Len(probe.out) :
              probe.out[i].path = probe.path =>
                  probe.out[i].title
                      = ReplaceAll(sanitizeFileName(probe.input.title), "-", " ")

\* C3 witness: a saved title with a character that sanitizing changes, listed
\* under a title that differs from the one typed.
C3_Witness ==
    /\ probe.op = "save"
    /\ \E i \in 1..Len(probe.input.title) : probe.input.title[i] = "!"
    /\ \E i \in 1..Len(probe.out) :
          probe.out[i].path = probe.path /\ probe.out[i].title # probe.input.title

\* a save command of an existing note that has built its path
SavesOfExisting ==
    {t \in BagToSet(tasks) :
        t.kind = "save" /\ t.existingNote # NULL /\ t.pc \in {"write", "read", "send"}}

\* C4: a save of an existing note writes a file that loadNotes lists with the
\* createdAt the note had before, whether or not the title changes.
C4_CreatedAtKept ==
    \A t \in SavesOfExisting :
        /\ IsNoteFile(t.path)
        /\ NoteOf(t.path).createdAt = t.existingNote.createdAt

\* C4 witness: a save made in "edit" under a changed title has written its
\* file, at a time later than the note's createdAt.
C4_Witness ==
    \E t \in SavesOfExisting :
        /\ t.from = "edit"
        /\ t.pc = "read"
        /\ ~t.err
        /\ t.path # t.existingNote.path
        /\ t.path \in DOMAIN disk
        /\ now > t.existingNote.createdAt

\* the save command t has just written its file
Wrote(t) ==
    /\ t.kind = "save"
    /\ t.pc = "write"
    /\ CopiesIn(t, tasks') = CopiesIn(t, tasks) - 1
    /\ BagIn([t EXCEPT !.pc = "read", !.err = FALSE], tasks')

\* C5 as stated: when a save made in "edit" has written its file, the
\* directory holds as many files as before the save, the old file is gone if
\* the name changed, the new name is there, and every other file is there
\* with the content it had.
C5_EditSaveKeepsOtherFiles ==
    [][\A t \in BagToSet(tasks) :
          (Wrote(t) /\ t.from = "edit") =>
              /\ Cardinality(DOMAIN disk') = Cardinality(DOMAIN t.before)
              /\ t.path # t.existingNote.path => t.existingNote.path \notin DOMAIN disk'
              /\ t.path \in DOMAIN disk'
              /\ \A name \in DOMAIN t.before \ {t.existingNote.path} :
                    name \in DOMAIN disk' /\ disk'[name] = t.before[name]]_vars

\* C6 as stated: when the last key pressed was a delete and every command in
\* flight has delivered its result, the deleted file is gone and no note in
\* memory has its path.
C6_DeletedPathGone ==
    (lastKey.kind = "delete" /\ InFlight = 0)
        => /\ lastKey.path \notin DOMAIN disk
           /\ lastKey.path \notin Paths(notes)

\* C7: when a reload result is processed while a note is selected and the new
\* collection has a note with its path, that note is selected afterwards and
\* the list cursor is at its position in the new collection.
C7_SelectionFollowsPath ==
    [][(InFlight' = InFlight - 1 /\ selectedNote # NULL
        /\ selectedNote.path \in Paths(notes'))
          => /\ selectedNote' # NULL
             /\ selectedNote'.path = selectedNote.path
             /\ listIndex' + 1 \in 1..Len(notes')
             /\ notes'[listIndex' + 1] = selectedNote']_vars

\* C7 witness: in "new" only a reload selects a note, and the first one it
\* selects is at the top; here a later reload has found the selected note
\* further down and moved the cursor there.
C7_Witness ==
    /\ mode = "new"
    /\ selectedNote # NULL
    /\ listIndex >= 1
    /\ listIndex + 1 <= Len(notes)
    /\ notes[listIndex + 1] = selectedNote

\* C8: the notes in memory are in descending order of createdAt.
C8_NewestFirst ==
    \A i \in 1..(Len(notes) - 1) : notes[i].createdAt >= notes[i + 1].createdAt

\* C8 witness: the directory lists an older note before a newer one, and the
\* notes in memory hold the newer one first.
C8_Witness ==
    /\ Len(notes) >= 2
    /\ notes[1].createdAt > notes[2].createdAt
    /\ NameLess(notes[2].path, notes[1].path)

C12_SelectionAmongReloaded ==
    [][(InFlight' = InFlight - 1 /\ selectedNote' # NULL)
          => selectedNote'.path \in Paths(notes')]_vars

\* C13: a delete command is dispatched only by a key pressed in mode "list"
\* with a note selected, and for the selected note's path; in "new" and "edit"
\* no key press dispatches a delete command and its reload.
C13_DeleteOnlyInList ==
    [][\A t \in BagToSet(tasks') :
          (t.kind = "delete" /\ CopiesIn(t, tasks') > CopiesIn(t, tasks))
            => /\ mode = "list"
               /\ selectedNote # NULL
               /\ t.path = selectedNote.path]_vars

\* C14: from one state in mode "edit" to the next state in mode "edit" the
\* selected note is the same note, whatever key or reload result the step
\* handles.
C14_EditKeepsSelection ==
    [][(mode = "edit" /\ mode' = "edit") => selectedNote' = selectedNote]_vars

\* C15: in "new" and "edit", the save key pressed while the title is empty
\* changes nothing: the mode, the selected note, the title-entered flag, the
\* text of both fields and the files on disk stay, and no command is
\* dispatched.
C15_EmptyTitleSaveIsNoOp ==
    [][(KeyCtrlS /\ mode \in {"new", "edit"} /\ tiValue = <<>>)
          => UNCHANGED <<mode, selectedNote, titleEntered, tiValue, taValue,
                         tiFocused, taFocused, notes, listIndex, disk, tasks>>]_vars

\* the save key pressed in the editor with content typed and no title
C15_Witness ==
    /\ lastKey.kind = "ctrl+s"
    /\ mode \in {"new", "edit"}
    /\ tiValue = <<>>
    /\ taValue # ""

\* C16: when a step makes another note the selected one (up/down, enter or a
\* reload result) and that note's file cannot be read, the content field is
\* empty after the step.
C16_UnreadableShowsEmpty ==
    [][(selectedNote' # NULL /\ selectedNote' # selectedNote
        /\ ReadFile(disk', selectedNote'.path).err)
          => taValue' = ""]_vars

\* C17: a reload result that Update processes in mode "new" or "edit" leaves
\* the text of the title field and of the content field as it was.
C17_ReloadKeepsEditorText ==
    [][(InFlight' = InFlight - 1 /\ mode \in {"new", "edit"})
          => (tiValue' = tiValue /\ taValue' = taValue)]_vars

\* C18: the title field and the content field are never both focused, and in
\* mode "list", when the last key was escape or a save, neither is focused.
C18_SingleFocus ==
    /\ ~(tiFocused /\ taFocused)
    /\ (mode = "list" /\ lastKey.kind \in {"esc", "save"})
         => (~tiFocused /\ ~taFocused)

\* the command t has taken a step
Stepped(t) == CopiesIn(t, tasks') < CopiesIn(t, tasks)

\* C19: every step of a save command takes it one call further, from the
\* removal to the write, to the read of the directory, to the delivery of
\* what was read, whether os.WriteFile failed or not.  The
\* existing note's file is gone before the write; a failed write changes no
\* file; so when the write of an edit-mode save has failed and nothing else
\* has written that name since, the collection read has no note with the old
\* path.
C19_SaveAlwaysReloads ==
    [][\A t \in BagToSet(tasks) :
          t.kind = "save" =>
            /\ t.pc \in {"start", "write", "read", "send"}
            /\ (Stepped(t) /\ t.pc = "start")
                 => /\ \E u \in BagToSet(tasks') :
                          u = [t EXCEPT !.pc = "write", !.path = u.path, !.before = disk]
                    /\ t.existingNote # NULL => t.existingNote.path \notin DOMAIN disk'
            /\ (Stepped(t) /\ t.pc = "write")
                 => \E failed \in BOOLEAN :
                       /\ BagIn([t EXCEPT !.pc = "read", !.err = failed], tasks')
                       /\ failed => disk' = disk
            /\ (Stepped(t) /\ t.pc = "read")
                 => \E u \in BagToSet(tasks') :
                       /\ u = [t EXCEPT !.pc = "send", !.msg = u.msg]
                       /\ Paths(u.msg) = {f \in DOMAIN disk : NamedAsNote(f)}
                       /\ (t.err /\ t.existingNote # NULL
                           /\ t.existingNote.path \notin DOMAIN disk)
                            => t.existingNote.path \notin Paths(u.msg)
            /\ (Stepped(t) /\ t.pc = "send")
                 => (InFlight' = InFlight - 1 /\ Range(notes') = Range(t.msg))]_vars

\* an edit-mode save whose write failed is about to deliver a collection
\* that has lost the note it was saving
C19_Witness ==
    \E t \in BagToSet(tasks) :
       /\ t.kind = "save"
       /\ t.from = "edit"
       /\ t.pc = "send"
       /\ t.err
       /\ t.existingNote # NULL
       /\ t.existingNote.path \in DOMAIN t.before
       /\ t.existingNote.path \notin Paths(t.msg)
       /\ t.path \notin Paths(t.msg)

\* C20: the refresh key, in whatever mode it is pressed, puts one reload
\* command in flight and changes nothing else: the mode, the selected note, the
\* title-entered flag, the focus and the text of both fields stay.  (No other
\* step puts exactly one more command in flight.)
C20_RefreshOnlyReloads ==
    [][(KeyCtrlU \/ InFlight' = InFlight + 1)
          => /\ tasks' = tasks (+) SetToBag({LoadTask})
             /\ UNCHANGED <<mode, selectedNote, titleEntered, tiFocused, taFocused,
                            tiValue, taValue, notes, listIndex, disk>>]_vars

\* the refresh key pressed in the editor of an existing note, title and
\* content in the fields, its reload still in flight
C20_Witness ==
    /\ lastKey.kind = "refresh"
    /\ mode = "edit"
    /\ tiValue # <<>>
    /\ taValue # ""
    /\ BagIn(LoadTask, tasks)

=============================================================================
